---- MODULE Spec2Model ----
(***************************************************************************)
(* Model of banks_project.py: a one-shot ETL script that scrapes a table   *)
(* of banks, adds three currency columns, writes the result to a CSV file  *)
(* and to an SQLite table, runs a verification query and closes the        *)
(* connection.  The script may be run again; the CSV file, the database    *)
(* and the log file survive from one run to the next.                      *)
(*                                                                         *)
(* Numbers.  A float with at most two decimals is represented by the       *)
(* integer number of hundredths (100.5 is 10050, the rate 0.9 is 90).  The *)
(* product of a market cap and a rate is then exact in units of 1/10000.   *)
(* Text is a tuple of one-character strings, so that stripping and         *)
(* parsing are computed and not assumed.                                   *)
(***************************************************************************)
EXTENDS Integers, Sequences, FiniteSets, TLC

\* ------------------------------------------------------------------ bounds
MaxRows == 2     \* body rows of a scraped table
MaxRuns == 2     \* invocations of the script against the same files

\* --------------------------------------------------------- configuration
table_attribs == <<"Name", "MC_USD_Billion">>
QueryLimit == 5

\* ------------------------------------------------------------------- text
Digits == {"0", "1", "2", "3", "4", "5", "6", "7", "8", "9"}

DigitVal(c) ==
  CASE c = "0" -> 0 [] c = "1" -> 1 [] c = "2" -> 2 [] c = "3" -> 3
    [] c = "4" -> 4 [] c = "5" -> 5 [] c = "6" -> 6 [] c = "7" -> 7
    [] c = "8" -> 8 [] c = "9" -> 9

RECURSIVE LStrip(_)
LStrip(t) ==
  IF t # <<>> /\ Head(t) = " " THEN LStrip(Tail(t)) ELSE t

RECURSIVE RStrip(_)
RStrip(t) ==
  IF t # <<>> /\ t[Len(t)] = " " THEN RStrip(SubSeq(t, 1, Len(t) - 1)) ELSE t

\* cell.get_text(strip=True)
GetTextStrip(t) == RStrip(LStrip(t))

RECURSIVE DigitsToInt(_)
DigitsToInt(t) ==
  IF t = <<>> THEN 0
  ELSE 10 * DigitsToInt(SubSeq(t, 1, Len(t) - 1)) + DigitVal(t[Len(t)])

DotPositions(t) == {i \in 1..Len(t) : t[i] = "."}

\* float(text) for plain decimal literals with at most two fraction digits;
\* ok = FALSE stands for the ValueError float() raises
ParseFloat(t) ==
  LET s == GetTextStrip(t)
      dots == DotPositions(s)
      wellFormed == /\ \A i \in 1..Len(s) : s[i] \in Digits \cup {"."}
                    /\ Cardinality(dots) <= 1
                    /\ \E i \in 1..Len(s) : s[i] \in Digits
      dot == IF dots = {} THEN Len(s) + 1 ELSE CHOOSE i \in dots : TRUE
      whole == SubSeq(s, 1, dot - 1)
      frac == SubSeq(s, dot + 1, Len(s))
  IN IF ~wellFormed \/ Len(frac) > 2 THEN [ok |-> FALSE, val |-> 0]
     ELSE [ok |-> TRUE,
           val |-> 100 * DigitsToInt(whole)
                   + (IF Len(frac) = 1 THEN 10 * DigitsToInt(frac)
                      ELSE DigitsToInt(frac))]

\* --------------------------------------------------------------- the page
BankA == <<"B", "a", "n", "k", "A">>
BankB == <<"B", "a", "n", "k", "B">>
Rank1 == <<"1">>

\* rows are tuples of <td> cell texts
RowA == <<Rank1, BankA, <<"1", "0", "0", ".", "5">> >>
RowB == <<Rank1, <<" ">> \o BankB \o <<" ">>, <<"5", "0", ".", "2", "5", " ">> >>
RowTwoCells == <<BankA, <<"7">> >>
RowFourCells == <<Rank1, BankB, <<"9">>, <<"x">> >>
RowNonNumeric == <<Rank1, BankA, <<"n", "/", "a">> >>

BodyRows == {RowA, RowB, RowTwoCells, RowFourCells, RowNonNumeric}

\* the first row of the table, whose cells are not data
HeaderRow == <<<<"#">>, <<"B", "a", "n", "k">>, <<"C", "a", "p">> >>

SeqsUpTo(S, n) == UNION {[1..k -> S] : k \in 0..n}

\* the <tr> rows of one `table tbody`
TableBodies ==
  {<<>>} \cup {<<HeaderRow>> \o b : b \in SeqsUpTo(BodyRows, MaxRows)}

DecoyTable == <<RowB, RowB>>

\* a page is the list of its `table tbody` elements, in document order:
\* none at all, or the table of banks followed by another table
Pages == {<<>>} \cup {<<t, DecoyTable>> : t \in TableBodies}

\* ------------------------------------------------------------ data frames
NoFrame == [columns |-> <<>>, rows |-> <<>>]

BankRecord(n, v) == [Name |-> n, MC_USD_Billion |-> v]

RECURSIVE SelectSeq3(_)
SelectSeq3(rs) ==
  IF rs = <<>> THEN <<>>
  ELSE IF Len(Head(rs)) = 3 THEN <<Head(rs)>> \o SelectSeq3(Tail(rs))
       ELSE SelectSeq3(Tail(rs))

\* variant: the width test written as len(cols) >= 3
RECURSIVE ThreeOrMoreCellRows(_)
ThreeOrMoreCellRows(rs) ==
  IF rs = <<>> THEN <<>>
  ELSE IF Len(Head(rs)) >= 3 THEN <<Head(rs)>> \o ThreeOrMoreCellRows(Tail(rs))
       ELSE ThreeOrMoreCellRows(Tail(rs))

\* the rows the loop of extract appends from: those with exactly three cells
ThreeCellRows(rs) == SelectSeq3(rs)

\* extract(url, table_attribs) on a fetched page
extract(page) ==
  IF page = <<>> THEN [ok |-> FALSE, df |-> NoFrame]       \* [0]: IndexError
  ELSE LET trs == page[1]
           rows == IF trs = <<>> THEN <<>> ELSE Tail(trs)     \* [1:]
           kept == ThreeCellRows(rows)
       IN IF \E i \in 1..Len(kept) : ~ParseFloat(kept[i][3]).ok
          THEN [ok |-> FALSE, df |-> NoFrame]                \* ValueError
          ELSE [ok |-> TRUE,
                df |-> [columns |-> table_attribs,
                        rows |-> [i \in 1..Len(kept) |->
                                   BankRecord(GetTextStrip(kept[i][2]),
                                              ParseFloat(kept[i][3]).val)]]]

\* ------------------------------------------------------------- transform
Currencies == {"GBP", "EUR", "INR"}

RatesExample == [c \in Currencies |->
                   IF c = "GBP" THEN 80 ELSE IF c = "EUR" THEN 90 ELSE 8000]

\* exchange_rate.csv as shipped with the project: 0.8, 0.93, 82.95
RatesFile == [c \in Currencies |->
                IF c = "GBP" THEN 80 ELSE IF c = "EUR" THEN 93 ELSE 8295]

\* the rate file's contents as a mapping, some currencies possibly missing
RateTables == {[c \in S |-> RatesExample[c]] : S \in SUBSET Currencies}

\* the same, over both sets of rates
AllRateTables ==
  RateTables \cup {[c \in S |-> RatesFile[c]] : S \in SUBSET Currencies}

\* market caps (100.5, 50.25, 432.92, 0.5) and frames as extract returns them
Caps == {10050, 5025, 43292, 50}

Frames ==
  {[columns |-> table_attribs, rows |-> r] :
     r \in SeqsUpTo({BankRecord(n, v) : n \in {BankA, BankB}, v \in Caps},
                    MaxRows)}

\* variant: ties rounded up instead of to the even hundredth
NpRoundHalfUp(p) == (p + 50) \div 100

\* np.round(x, 2) of a non-negative x given in 1/10000: scale by 100,
\* round to the nearest integer with ties to even, scale back
NpRound(p) ==
  LET q == p \div 100
      r == p % 100
  IN IF r < 50 THEN q
     ELSE IF r > 50 THEN q + 1
     ELSE IF q % 2 = 0 THEN q ELSE q + 1

ColumnOf(c) ==
  CASE c = "GBP" -> "MC_GBP_Billion"
    [] c = "EUR" -> "MC_EUR_Billion"
    [] c = "INR" -> "MC_INR_Billion"

\* variant: the assignment loses the last row
AddColumnDropLast(d, name, vals) ==
  [columns |-> d.columns \o <<name>>,
   rows |-> [i \in 1..(Len(d.rows) - 1) |-> (name :> vals[i]) @@ d.rows[i]]]

\* df[name] = vals
AddColumn(d, name, vals) ==
  [columns |-> IF \E i \in 1..Len(d.columns) : d.columns[i] = name
               THEN d.columns ELSE d.columns \o <<name>>,
   rows |-> [i \in 1..Len(d.rows) |-> (name :> vals[i]) @@ d.rows[i]]]

\* one of lines 81-83: the comprehension looks the rate up once per row, so
\* a missing key raises KeyError only when the frame has a row
ScaleColumn(d, rates, c) ==
  IF d.rows # <<>> /\ c \notin DOMAIN rates
  THEN [ok |-> FALSE, df |-> d]
  ELSE [ok |-> TRUE,
        df |-> AddColumn(d, ColumnOf(c),
                 [i \in 1..Len(d.rows) |->
                    NpRound(d.rows[i].MC_USD_Billion * rates[c])])]

\* the body of transform after the rate file has been read: the frame is
\* changed in place, so df is the state of the caller's frame when the
\* function returns or raises
transform(d, rates) ==
  LET g == ScaleColumn(d, rates, "GBP")
      e == ScaleColumn(g.df, rates, "EUR")
      n == ScaleColumn(e.df, rates, "INR")
  IN IF ~g.ok THEN g ELSE IF ~e.ok THEN e ELSE n

\* ------------------------------------------------------------ persistence
NoFile == [exists |-> FALSE, columns |-> <<>>, rows |-> <<>>]

\* variant: only the header line is written
to_csv_header_only(d) ==
  [exists |-> TRUE, columns |-> d.columns, rows |-> <<>>]

\* df.to_csv(path, index=False): the file is overwritten with a header line
\* and one line per row
to_csv(d) == [exists |-> TRUE, columns |-> d.columns, rows |-> d.rows]

\* a write that failed after the file was opened for writing
Truncated == [exists |-> TRUE, columns |-> <<>>, rows |-> <<>>]

\* variant: if_exists='append'
to_sql_append(old, d) ==
  [exists |-> TRUE, columns |-> d.columns, rows |-> old.rows \o d.rows]

\* df.to_sql(table_name, con, if_exists='replace', index=False)
to_sql(old, d) ==
  [exists |-> TRUE, columns |-> d.columns, rows |-> d.rows]

\* pd.read_sql('SELECT Name from Largest_banks LIMIT 5', con)
read_sql(t) ==
  [i \in 1..(IF Len(t.rows) < QueryLimit THEN Len(t.rows) ELSE QueryLimit)
     |-> t.rows[i].Name]

\* ------------------------------------------------------------ the script
Program ==
  <<"log_start", "extract", "log_extract", "transform", "log_transform",
    "load_to_csv", "log_csv", "connect", "log_connect", "load_to_db",
    "log_db", "run_query", "log_complete", "close">>

LogSteps ==
  {"log_start", "log_extract", "log_transform", "log_csv", "log_connect",
   "log_db", "log_complete"}

Stages == {"extract", "transform", "load_to_csv", "load_to_db", "run_query"}

IndexOf(p) == CHOOSE i \in 1..Len(Program) : Program[i] = p

\* variant: load_to_csv and transform in each other's place
ProgramLoadFirst ==
  <<"log_start", "extract", "log_extract", "load_to_csv", "log_transform",
    "transform", "log_csv", "connect", "log_connect", "load_to_db",
    "log_db", "run_query", "log_complete", "close">>

NextPcLoadFirst(p) ==
  LET i == CHOOSE j \in 1..Len(ProgramLoadFirst) : ProgramLoadFirst[j] = p
  IN IF i = Len(ProgramLoadFirst) THEN "done" ELSE ProgramLoadFirst[i + 1]

\* the statement main executes after p
NextPc(p) ==
  IF IndexOf(p) = Len(Program) THEN "done" ELSE Program[IndexOf(p) + 1]

LogMessage(p) ==
  CASE p = "log_start" -> "Preliminaries complete. Initiating ETL process"
    [] p = "log_extract" ->
         "Data extraction complete. Initiating Transformation process"
    [] p = "log_transform" ->
         "Data transformation complete. Initiating loading process"
    [] p = "log_csv" -> "Data saved to CSV file"
    [] p = "log_connect" -> "SQL Connection initiated."
    [] p = "log_db" -> "Data loaded to Database as table. Running the query"
    [] p = "log_complete" -> "Process Complete."

\* variant: the log opened with mode "w"
AppendLineTruncating(f, message) == <<message>>

\* open("./code_log.txt", "a") and f.write: the line goes to the end of the
\* file (the timestamp prefix is left out)
AppendLine(f, message) == Append(f, message)

VARIABLES
  pc,          \* the statement of main about to run, or "done" / "failed"
  failedAt,    \* the statement that raised, when pc = "failed"
  run,         \* number of this invocation of the script
  heap,        \* the DataFrame objects of this process
  df,          \* main's variable df: an index into heap, 0 while unbound
  conn,        \* sql_connection: "none", "open" or "closed"
  csvFile,     \* Largest_banks_data.csv
  dbTable,     \* table Largest_banks of Banks.db
  log,         \* code_log.txt, one entry per line
  stdout,      \* the query output printed by run_query
  logStart,    \* history: length of the log when this run started
  order,       \* history: the stages this run has called, in call order
  stageIn,     \* history: the frame each stage was called with
  stageOut,    \* history: the frame each stage returned
  lastCall,    \* history: the call made by the latest step
  lastDb,      \* history: the load_to_db call of this run
  written      \* history: the sinks this run has written in full

vars == <<pc, failedAt, run, heap, df, conn, csvFile, dbTable, log, stdout,
          logStart, order, stageIn, stageOut, lastCall, lastDb, written>>

NoRates == [c \in {} |-> 0]

Call(name, ok, err, page, rates, argRef, before, outRef) ==
  [name |-> name, ok |-> ok, err |-> err, page |-> page, rates |-> rates,
   argRef |-> argRef, before |-> before, outRef |-> outRef]

PlainCall(name, ok, err) == Call(name, ok, err, <<>>, NoRates, 0, NoFrame, 0)

NoStageFrames == [s \in Stages |-> NoFrame]

NoDbCall == [made |-> FALSE, ok |-> FALSE, rowsBefore |-> 0, df |-> NoFrame]

Init ==
  /\ pc = "log_start"
  /\ failedAt = ""
  /\ run = 1
  /\ heap = <<>>
  /\ df = 0
  /\ conn = "none"
  /\ csvFile = NoFile
  /\ dbTable = NoFile
  /\ log = <<>>
  /\ stdout = <<>>
  /\ logStart = 0
  /\ order = <<>>
  /\ stageIn = NoStageFrames
  /\ stageOut = NoStageFrames
  /\ lastCall = PlainCall("", TRUE, "")
  /\ lastDb = NoDbCall
  /\ written = {}

\* an exception leaves main: the process ends at the raising statement
Raise(name, err) ==
  /\ pc' = "failed"
  /\ failedAt' = pc
  /\ lastCall' = PlainCall(name, FALSE, err)

\* log_progress(message), lines 130, 133, 136, 139, 142, 145 and 151
LogProgress ==
  /\ pc \in LogSteps
  /\ \/ /\ log' = AppendLine(log, LogMessage(pc))
        /\ pc' = NextPc(pc)
        /\ lastCall' = PlainCall("log_progress", TRUE, "")
        /\ UNCHANGED failedAt
     \/ /\ Raise("log_progress", "OSError")
        /\ UNCHANGED log
  /\ UNCHANGED <<run, heap, df, conn, csvFile, dbTable, stdout, logStart,
                 order, stageIn, stageOut, lastDb, written>>

\* df = extract(url, table_attribs), line 132
Extract ==
  /\ pc = "extract"
  /\ order' = Append(order, "extract")
  /\ \/ \E page \in Pages :
          LET r == extract(page) IN
            IF r.ok
            THEN /\ heap' = Append(heap, r.df)
                 /\ df' = Len(heap) + 1
                 /\ stageOut' = [stageOut EXCEPT !["extract"] = r.df]
                 /\ pc' = NextPc(pc)
                 /\ lastCall' = Call("extract", TRUE, "", page, NoRates, 0,
                                     NoFrame, Len(heap) + 1)
                 /\ UNCHANGED failedAt
            ELSE /\ pc' = "failed"
                 /\ failedAt' = pc
                 /\ lastCall' = Call("extract", FALSE,
                                     IF page = <<>> THEN "IndexError"
                                     ELSE "ValueError",
                                     page, NoRates, 0, NoFrame, 0)
                 /\ UNCHANGED <<heap, df, stageOut>>
     \/ /\ Raise("extract", "ConnectionError")       \* requests.get raises
        /\ UNCHANGED <<heap, df, stageOut>>
  /\ UNCHANGED <<run, conn, csvFile, dbTable, log, stdout, logStart, stageIn,
                 lastDb, written>>

\* df = transform(df, csv_path), line 135, the rate file holding one of the
\* tables of R
TransformWith(R) ==
  /\ pc = "transform"
  /\ order' = Append(order, "transform")
  /\ stageIn' = [stageIn EXCEPT !["transform"] = heap[df]]
  /\ \/ \E rates \in R :
          LET r == transform(heap[df], rates) IN
            /\ heap' = [heap EXCEPT ![df] = r.df]
            /\ IF r.ok
               THEN /\ df' = df                     \* return df
                    /\ stageOut' = [stageOut EXCEPT !["transform"] = r.df]
                    /\ pc' = NextPc(pc)
                    /\ lastCall' = Call("transform", TRUE, "", <<>>, rates,
                                        df, heap[df], df)
                    /\ UNCHANGED failedAt
               ELSE /\ pc' = "failed"
                    /\ failedAt' = pc
                    /\ lastCall' = Call("transform", FALSE, "KeyError", <<>>,
                                        rates, df, heap[df], 0)
                    /\ UNCHANGED <<df, stageOut>>
     \/ /\ Raise("transform", "FileNotFoundError")   \* pd.read_csv raises
        /\ UNCHANGED <<heap, df, stageOut>>
  /\ UNCHANGED <<run, conn, csvFile, dbTable, log, stdout, logStart, lastDb, written>>

Transform == TransformWith(RateTables)

\* load_to_csv(df, output_cv_path), line 138
LoadToCsv ==
  /\ pc = "load_to_csv"
  /\ order' = Append(order, "load_to_csv")
  /\ stageIn' = [stageIn EXCEPT !["load_to_csv"] = heap[df]]
  /\ \/ /\ csvFile' = to_csv(heap[df])
        /\ written' = written \cup {"csv"}
        /\ pc' = NextPc(pc)
        /\ lastCall' = PlainCall("load_to_csv", TRUE, "")
        /\ UNCHANGED failedAt
     \/ /\ Raise("load_to_csv", "OSError")
        /\ csvFile' \in {csvFile, Truncated}
        /\ UNCHANGED written
  /\ UNCHANGED <<run, heap, df, conn, dbTable, log, stdout, logStart,
                 stageOut, lastDb>>

\* sql_connection = sqlite3.connect('Banks.db'), line 141
Connect ==
  /\ pc = "connect"
  /\ \/ /\ conn' = "open"
        /\ pc' = NextPc(pc)
        /\ lastCall' = PlainCall("connect", TRUE, "")
        /\ UNCHANGED failedAt
     \/ /\ Raise("connect", "OperationalError")
        /\ UNCHANGED conn
  /\ UNCHANGED <<run, heap, df, csvFile, dbTable, log, stdout, logStart,
                 order, stageIn, stageOut, lastDb, written>>

\* load_to_db(df, sql_connection, table_name), line 144
LoadToDb ==
  /\ pc = "load_to_db"
  /\ conn = "open"
  /\ order' = Append(order, "load_to_db")
  /\ stageIn' = [stageIn EXCEPT !["load_to_db"] = heap[df]]
  /\ \/ /\ dbTable' = to_sql(dbTable, heap[df])
        /\ written' = written \cup {"db"}
        /\ pc' = NextPc(pc)
        /\ lastCall' = PlainCall("load_to_db", TRUE, "")
        /\ lastDb' = [made |-> TRUE, ok |-> TRUE,
                      rowsBefore |-> Len(dbTable.rows), df |-> heap[df]]
        /\ UNCHANGED failedAt
     \/ /\ Raise("load_to_db", "DatabaseError")
        /\ dbTable' \in {dbTable, NoFile}
        /\ lastDb' = [made |-> TRUE, ok |-> FALSE,
                      rowsBefore |-> Len(dbTable.rows), df |-> NoFrame]
        /\ UNCHANGED written
  /\ UNCHANGED <<run, heap, df, conn, csvFile, log, stdout, logStart,
                 stageOut>>

\* run_query(query_statement, sql_connection), line 150
RunQuery ==
  /\ pc = "run_query"
  /\ conn = "open"
  /\ order' = Append(order, "run_query")
  /\ \/ /\ dbTable.exists
        /\ stdout' = read_sql(dbTable)
        /\ pc' = NextPc(pc)
        /\ lastCall' = PlainCall("run_query", TRUE, "")
        /\ UNCHANGED failedAt
     \/ /\ Raise("run_query", "DatabaseError")
        /\ UNCHANGED stdout
  /\ UNCHANGED <<run, heap, df, conn, csvFile, dbTable, log, logStart,
                 stageIn, stageOut, lastDb, written>>

\* sql_connection.close(), line 153
Close ==
  /\ pc = "close"
  /\ conn' = "closed"
  /\ pc' = NextPc(pc)
  /\ lastCall' = PlainCall("close", TRUE, "")
  /\ UNCHANGED <<failedAt, run, heap, df, csvFile, dbTable, log, stdout,
                 logStart, order, stageIn, stageOut, lastDb, written>>

\* the script is invoked again: a fresh process over the same files
Rerun ==
  /\ pc \in {"done", "failed"}
  /\ run < MaxRuns
  /\ run' = run + 1
  /\ pc' = "log_start"
  /\ failedAt' = ""
  /\ heap' = <<>>
  /\ df' = 0
  /\ conn' = "none"
  /\ stdout' = <<>>
  /\ logStart' = Len(log)
  /\ order' = <<>>
  /\ stageIn' = NoStageFrames
  /\ stageOut' = NoStageFrames
  /\ lastCall' = PlainCall("", TRUE, "")
  /\ lastDb' = NoDbCall
  /\ written' = {}
  /\ UNCHANGED <<csvFile, dbTable, log>>

Next ==
  \/ LogProgress
  \/ Extract
  \/ Transform
  \/ LoadToCsv
  \/ Connect
  \/ LoadToDb
  \/ RunQuery
  \/ Close
  \/ Rerun

Spec == Init /\ [][Next]_vars

\* transform on its own: main is about to call it with any frame extract can
\* have returned, and the rate file holds any of the rate tables
InitTransform ==
  /\ pc = "transform"
  /\ failedAt = ""
  /\ run = 1
  /\ heap \in {<<f>> : f \in Frames}
  /\ df = 1
  /\ conn = "none"
  /\ csvFile = NoFile
  /\ dbTable = NoFile
  /\ log = <<LogMessage("log_start"), LogMessage("log_extract")>>
  /\ stdout = <<>>
  /\ logStart = 0
  /\ order = <<"extract">>
  /\ stageIn = NoStageFrames
  /\ stageOut = [NoStageFrames EXCEPT !["extract"] = heap[1]]
  /\ lastCall = PlainCall("log_progress", TRUE, "")
  /\ lastDb = NoDbCall
  /\ written = {}

TransformAny == TransformWith(AllRateTables)

SpecTransform == InitTransform /\ [][TransformAny]_vars

\* ================================================================ claims
Terminated == pc \in {"done", "failed"}

InSeq(x, q) == \E i \in 1..Len(q) : q[i] = x

IsPrefix(a, b) == Len(a) <= Len(b) /\ \A i \in 1..Len(a) : a[i] = b[i]

\* the lines this run has written to the log
RunLog == SubSeq(log, logStart + 1, Len(log))

StageOrder == <<"extract", "transform", "load_to_csv", "load_to_db", "run_query">>

StageIndex(s) == CHOOSE i \in 1..Len(StageOrder) : StageOrder[i] = s

\* the stage was called by this run and returned
Completed(s) == InSeq(s, order) /\ ~(pc = "failed" /\ failedAt = s)

\* the sink (the CSV file or the table) was written in full by this run
Persisted(sink) == sink \in written

\* C1: once the connection has been opened, it has been closed whenever the
\* process has ended, whether the run succeeded or a later statement raised.
C1_ClosedOnEveryExit == (Terminated /\ conn # "none") => conn = "closed"

MilestoneOf(s) ==
  CASE s = "extract" -> LogMessage("log_extract")
    [] s = "transform" -> LogMessage("log_transform")
    [] s = "load_to_csv" -> LogMessage("log_csv")
    [] s = "load_to_db" -> LogMessage("log_db")
    [] s = "run_query" -> LogMessage("log_complete")

AllMilestones ==
  <<LogMessage("log_start"), LogMessage("log_extract"),
    LogMessage("log_transform"), LogMessage("log_csv"),
    LogMessage("log_connect"), LogMessage("log_db"),
    LogMessage("log_complete")>>

\* C3: when a stage has failed the run is over, no later stage was called,
\* and the lines this run logged are the milestones, in order, of exactly
\* the stages that completed before the failure.
C3_LogUpToFailure ==
  (pc = "failed" /\ failedAt \in Stages) =>
    /\ order # <<>> /\ order[Len(order)] = failedAt
    /\ \A s \in Stages :
         StageIndex(s) > StageIndex(failedAt) => ~InSeq(s, order)
    /\ IsPrefix(RunLog, AllMilestones)
    /\ \A s \in Stages : InSeq(MilestoneOf(s), RunLog) <=> Completed(s)
    /\ ~ENABLED (LogProgress \/ Extract \/ Transform \/ LoadToCsv \/ Connect
                 \/ LoadToDb \/ RunQuery \/ Close)

C3_Witness ==
  /\ pc = "failed" /\ failedAt = "load_to_db"
  /\ run = 2 /\ logStart > 0
  /\ Len(RunLog) = 5

\* C4: the stages are called at most once each, in the order extract,
\* transform, load_to_csv, load_to_db, run_query, each only after the ones
\* before it returned; transform is called with what extract returned and
\* both loads with what transform returned.
C4_LinearOrder ==
  /\ IsPrefix(order, StageOrder)
  /\ \A i \in 1..(Len(order) - 1) : Completed(order[i])
  /\ InSeq("transform", order) => stageIn["transform"] = stageOut["extract"]
  /\ InSeq("load_to_csv", order) =>
       stageIn["load_to_csv"] = stageOut["transform"]
  /\ InSeq("load_to_db", order) =>
       stageIn["load_to_db"] = stageOut["transform"]

C4_Witness ==
  /\ pc = "done"
  /\ order = StageOrder
  /\ Len(stageIn["load_to_db"].rows) = 2
  /\ stageOut["extract"] # stageOut["transform"]

AllRates(rates) == Currencies \subseteq DOMAIN rates

TransformReturned == lastCall.name = "transform" /\ lastCall.ok

\* C5: with GBP, EUR and INR in the rate table, the frame transform returns
\* has as many rows as the frame it was given, and its i-th row has the
\* Name and MC_USD_Billion of the i-th input row.
C5_SameRowsSameOrder ==
  (TransformReturned /\ AllRates(lastCall.rates)) =>
    LET in == lastCall.before.rows
        out == heap[lastCall.outRef].rows
    IN /\ Len(out) = Len(in)
       /\ \A i \in 1..Len(in) :
            /\ out[i].Name = in[i].Name
            /\ out[i].MC_USD_Billion = in[i].MC_USD_Billion

C5_Witness ==
  /\ TransformReturned /\ AllRates(lastCall.rates)
  /\ Len(lastCall.before.rows) = 2
  /\ lastCall.before.rows[1].Name = BankB
  /\ lastCall.before.rows[2].Name = BankA
  /\ Len(heap[lastCall.outRef].columns) = 5

\* C6: when GBP, EUR or INR is missing from the rate table, transform (given
\* a frame with at least one record) raises and the caller's frame is as it
\* was before the call: no derived column has been added to it.
C6_MissingRateNoPartialOutput ==
  (lastCall.name = "transform" /\ lastCall.err # "FileNotFoundError"
     /\ lastCall.before.rows # <<>>
     /\ ~AllRates(lastCall.rates)) =>
    /\ ~lastCall.ok
    /\ lastCall.err = "KeyError"
    /\ heap[lastCall.argRef] = lastCall.before

\* what the text of a cell is once leading and trailing blanks are removed
IsTrimOf(s, t) ==
  \E a \in 1..(Len(t) + 1) : \E b \in 0..Len(t) :
    /\ s = SubSeq(t, a, b)
    /\ \A i \in 1..Len(t) : (i < a \/ i > b) => t[i] = " "
    /\ s # <<>> => (s[1] # " " /\ s[Len(s)] # " ")

\* the market caps that occur on the pages, in hundredths; -1: not a number
NumericValue(t) ==
  CASE t = <<"1", "0", "0", ".", "5">> -> 10050
    [] t = <<"5", "0", ".", "2", "5", " ">> -> 5025
    [] OTHER -> -1

BodyOf(page) == IF page[1] = <<>> THEN <<>> ELSE Tail(page[1])

ThreeCellIndexes(body) == {i \in 1..Len(body) : Len(body[i]) = 3}

\* C7: when every three-cell row of the first table has a numeric market
\* cap, extract returns one record for each row after the header that has
\* exactly three cells, in row order, with the trimmed second cell as Name
\* and the third cell as market cap; rows of another width are left out.
C7_OneRecordPerThreeCellRow ==
  (lastCall.name = "extract" /\ lastCall.page # <<>>
     /\ \A i \in ThreeCellIndexes(BodyOf(lastCall.page)) :
          NumericValue(BodyOf(lastCall.page)[i][3]) >= 0) =>
    /\ lastCall.ok
    /\ LET body == BodyOf(lastCall.page)
           idx == ThreeCellIndexes(body)
           out == heap[lastCall.outRef].rows
       IN /\ Len(out) = Cardinality(idx)
          /\ \A i \in idx :
               LET k == Cardinality({j \in idx : j <= i})
               IN /\ IsTrimOf(out[k].Name, body[i][2])
                  /\ out[k].MC_USD_Billion = NumericValue(body[i][3])

C7_Witness ==
  /\ lastCall.name = "extract" /\ lastCall.ok
  /\ lastCall.page = <<<<HeaderRow, RowTwoCells, RowB>>, DecoyTable>>
  /\ heap[lastCall.outRef].rows = <<BankRecord(BankB, 5025)>>

\* v (hundredths) is p (1/10000) rounded to the nearest hundredth, a tie
\* going to the even hundredth
IsRoundedHalfEven(v, p) ==
  /\ 100 * v - p \in -50..50
  /\ (100 * v - p \in {-50, 50}) => v % 2 = 0

ExampleInput == <<BankRecord(BankA, 10050), BankRecord(BankB, 5025)>>

EnrichedRecord(n, usd, gbp, eur, inr) ==
  [Name |-> n, MC_USD_Billion |-> usd, MC_GBP_Billion |-> gbp,
   MC_EUR_Billion |-> eur, MC_INR_Billion |-> inr]

IsExampleCall ==
  /\ TransformReturned
  /\ lastCall.before.rows = ExampleInput
  /\ lastCall.rates = RatesExample

\* C8 as claimed: for the rows (BankA, 100.5), (BankB, 50.25) and the rates
\* 0.8, 0.9, 80.0 the result has 45.23 as BankB's EUR value.
C8_ExampleTieUp ==
  IsExampleCall =>
    heap[lastCall.outRef].rows =
      <<EnrichedRecord(BankA, 10050, 8040, 9045, 804000),
        EnrichedRecord(BankB, 5025, 4020, 4523, 402000)>>

\* C8 as amended: every derived column is MC_USD_Billion times its rate
\* rounded to two decimals, a tie going to the even hundredth; for the
\* example the result has 45.22 as BankB's EUR value.
C8_RoundedHalfEven ==
  /\ (TransformReturned /\ AllRates(lastCall.rates)) =>
       LET out == heap[lastCall.outRef].rows
           r == lastCall.rates
       IN \A i \in 1..Len(out) :
            /\ IsRoundedHalfEven(out[i].MC_GBP_Billion,
                                 out[i].MC_USD_Billion * r["GBP"])
            /\ IsRoundedHalfEven(out[i].MC_EUR_Billion,
                                 out[i].MC_USD_Billion * r["EUR"])
            /\ IsRoundedHalfEven(out[i].MC_INR_Billion,
                                 out[i].MC_USD_Billion * r["INR"])
  /\ IsExampleCall =>
       heap[lastCall.outRef].rows =
         <<EnrichedRecord(BankA, 10050, 8040, 9045, 804000),
           EnrichedRecord(BankB, 5025, 4020, 4522, 402000)>>

C8_Witness == IsExampleCall /\ Len(heap[lastCall.outRef].rows) = 2

\* C9: after a load_to_db call has returned, the table holds the rows of
\* that call, in its order, and nothing of what it held before.
C9_TableIsLatestLoad ==
  (lastDb.made /\ lastDb.ok) =>
    /\ dbTable.exists
    /\ dbTable.columns = lastDb.df.columns
    /\ dbTable.rows = lastDb.df.rows
    /\ Len(dbTable.rows) = Len(lastDb.df.rows)

C9_Witness ==
  /\ lastDb.made /\ lastDb.ok
  /\ lastCall.name = "load_to_db"
  /\ run = 2
  /\ lastDb.rowsBefore = 2
  /\ Len(lastDb.df.rows) = 1
  /\ dbTable.rows = lastDb.df.rows

\* C10: when transform returns, the frame it was given is as it was before
\* the call, and the frame it returns is another object.
C10_InputUnchanged ==
  TransformReturned =>
    /\ heap[lastCall.argRef] = lastCall.before
    /\ lastCall.outRef # lastCall.argRef

====
